---- MODULE Spec2Model ----
(***************************************************************************)
(* Model of the data-quality validation engine of the commit pipeline      *)
(* (pipeline/src/validation.py, class DataQualityValidator).               *)
(*                                                                         *)
(* A dataset (pandas DataFrame) is described by what the checks read of    *)
(* it: its column set, its row count, the dtype of the four typed columns, *)
(* the number of nulls of each critical column, and the values of the      *)
(* commit_sha column (a bag of values; order is never read).               *)
(***************************************************************************)
EXTENDS Integers, Naturals, Sequences, FiniteSets, TLC

VARIABLES table, passed, failed, warnings, log, ret, report, ops,
          now, earlier, bucket, stored, latest, fetched, load

vars == <<table, passed, failed, warnings, log, ret, report, ops,
          now, earlier, bucket, stored, latest, fetched, load>>

\* What lies outside the engine instance: the clock, the report kept from an
\* earlier instance, the object store with its two stages, and how the last
\* fetch_data and the last load_to_postgres ended.
outside == <<now, earlier, bucket, stored, latest, fetched, load>>

(***************************************************************************)
(* Bounds of the model and constants of the program.                       *)
(***************************************************************************)
MaxRows == 20
MaxDeviations == 2
MaxOps == 2
MaxCalls == 4
MaxRuns == 3
MaxClock == 2
MaxLoads == 3
DefaultMinRows == 10
DefaultThresholdPct == 5
ShaLength == 40

(***************************************************************************)
(* Generic helpers.                                                        *)
(***************************************************************************)
Range(s) == {s[i] : i \in DOMAIN s}

CountIn(s, x) == Cardinality({i \in DOMAIN s : s[i] = x})

\* t starts with s (str.startswith, a list extended by appends)
IsPrefixOf(s, t) == Len(s) <= Len(t) /\ SubSeq(t, 1, Len(s)) = s

(***************************************************************************)
(* Column lists of the checks.                                             *)
(***************************************************************************)
RequiredColumns ==
    << "commit_sha", "author_name", "author_email", "author_date",
       "committer_name", "committer_email", "committer_date",
       "commit_message", "comment_count" >>

CriticalColumns ==
    << "commit_sha", "author_name", "author_email", "author_date",
       "committer_name", "committer_email", "committer_date",
       "commit_message" >>

DateColumns == << "author_date", "committer_date" >>

PrimaryKey == "commit_sha"

RequiredSet == Range(RequiredColumns)
CriticalSet == Range(CriticalColumns)
ExtraColumns == {"source"}
TypedColumns == {"commit_sha", "author_date", "committer_date", "comment_count"}

(***************************************************************************)
(* Values of the commit_sha column.  A string is a sequence of characters; *)
(* the null value (None / NaN) is NullValue, which is no string.  In a     *)
(* column that is not of strings the values only stand for distinct data.  *)
(***************************************************************************)
NullValue == << "NULL" >>

HexLower == {"a", "b", "c", "d", "e", "f",
             "0", "1", "2", "3", "4", "5", "6", "7", "8", "9"}
HexDigits == << "0", "1", "2", "3", "4", "5", "6", "7",
                "8", "9", "a", "b", "c", "d", "e", "f" >>

ShaNames == {"null", "valid", "short", "upper", "newline"}

ShaValue(name) ==
    CASE name = "null"    -> NullValue
      [] name = "valid"   -> [i \in 1..ShaLength |-> "a"]
      [] name = "short"   -> << "x", "y", "z", "1", "2", "3" >>
      [] name = "upper"   -> [i \in 1..ShaLength |-> "A"]
      [] name = "newline" -> [i \in 1..(ShaLength + 1) |->
                                 IF i <= ShaLength THEN "c" ELSE "\n"]

\* The i-th ordinary value of the column: a well-formed hash, distinct for
\* distinct i < 256 and distinct from every named value.
Filler(i) ==
    [j \in 1..ShaLength |->
        IF j = 1 THEN HexDigits[(i % 16) + 1]
        ELSE IF j = 2 THEN HexDigits[((i \div 16) % 16) + 1]
        ELSE "b"]

(***************************************************************************)
(* Datasets.  A dataset d has                                              *)
(*   d.columns  the set of its column names (df.columns),                  *)
(*   d.nrows    its number of rows (len(df)),                              *)
(*   d.dtype    the dtype of each typed column that is present,            *)
(*   d.nulls    the number of nulls of each present critical column other  *)
(*              than commit_sha,                                           *)
(*   d.sha      the number of rows holding each named commit_sha value;    *)
(*              the remaining rows hold Filler(1), Filler(2), ...          *)
(***************************************************************************)
ExpectedDtype(col) ==
    CASE col = "commit_sha" -> "object"
      [] col \in Range(DateColumns) -> "datetime64[ns]"
      [] col = "comment_count" -> "int64"

OtherDtype(col) ==
    CASE col = "commit_sha" -> "float64"
      [] col \in Range(DateColumns) -> "object"
      [] col = "comment_count" -> "object"

NamedRows(d) ==
    d.sha["null"] + d.sha["valid"] + d.sha["short"] + d.sha["upper"] + d.sha["newline"]

\* The deviations a dataset may have from a clean one.
Deviations ==
    {<<"missing", c>> : c \in RequiredSet}
        \cup {<<"extra", c>> : c \in ExtraColumns}
        \cup {<<"sha", v>> : v \in ShaNames}
        \cup {<<"null", c>> : c \in CriticalSet \ {PrimaryKey}}
        \cup {<<"dtype", c>> : c \in TypedColumns}

Build(n, devs) ==
    LET cols == (RequiredSet \ {c \in RequiredSet : CountIn(devs, <<"missing", c>>) > 0})
                    \cup {c \in ExtraColumns : CountIn(devs, <<"extra", c>>) > 0}
    IN  [ columns |-> cols,
          nrows   |-> n,
          dtype   |-> [c \in cols \cap TypedColumns |->
                          IF CountIn(devs, <<"dtype", c>>) > 0
                          THEN OtherDtype(c) ELSE ExpectedDtype(c)],
          nulls   |-> [c \in cols \cap (CriticalSet \ {PrimaryKey}) |->
                          CountIn(devs, <<"null", c>>)],
          sha     |-> [v \in ShaNames |->
                          IF PrimaryKey \in cols
                          THEN CountIn(devs, <<"sha", v>>) ELSE 0] ]

WellFormed(d) ==
    /\ NamedRows(d) <= d.nrows
    /\ \A c \in DOMAIN d.nulls : d.nulls[c] <= d.nrows

DevSeqs(k) == UNION {[1..j -> Deviations] : j \in 0..k}

RowCounts == {0, 1, DefaultMinRows - 1, DefaultMinRows, MaxRows}

\* A dataset holding only the columns cols, n rows, k nulls in each of its
\* critical columns.
Sparse(cols, n, k) ==
    [ columns |-> cols,
      nrows   |-> n,
      dtype   |-> [c \in cols \cap TypedColumns |-> ExpectedDtype(c)],
      nulls   |-> [c \in cols \cap (CriticalSet \ {PrimaryKey}) |-> k],
      sha     |-> [v \in ShaNames |-> IF v = "null" /\ PrimaryKey \in cols THEN k ELSE 0] ]

SparseDatasets ==
    {Sparse(cols, n, k) :
        cols \in {{}} \cup {{c} : c \in RequiredSet \cup ExtraColumns},
        n \in RowCounts, k \in 0..1}

\* A dataset with every required column whose commit_sha column, of dtype dt,
\* holds the named value a on three rows and, when b differs from a, the
\* named value b on two rows; its other rows hold distinct values.
Repeating(n, a, b, dt) ==
    [ columns |-> RequiredSet,
      nrows   |-> n,
      dtype   |-> [c \in TypedColumns |->
                      IF c = PrimaryKey THEN dt ELSE ExpectedDtype(c)],
      nulls   |-> [c \in CriticalSet \ {PrimaryKey} |-> 0],
      sha     |-> [v \in ShaNames |-> IF v = a THEN 3 ELSE IF v = b THEN 2 ELSE 0] ]

RepeatingDatasets ==
    {Repeating(n, a, b, dt) :
        n \in RowCounts, a \in ShaNames, b \in ShaNames,
        dt \in {ExpectedDtype(PrimaryKey), OtherDtype(PrimaryKey)}}

\* The datasets the single checks are applied to.
Datasets ==
    {d \in {Build(n, s) : n \in RowCounts, s \in DevSeqs(MaxDeviations)}
            \cup SparseDatasets \cup RepeatingDatasets : WellFormed(d)}

\* The tables a whole run loads: a clean table, one with a single deviation,
\* or one with a repeated commit_sha value.
RunTables ==
    {d \in {Build(n, s) : n \in RowCounts, s \in {<<>>} \cup {<<x>> : x \in Deviations}}
            \cup {Repeating(n, a, a, ExpectedDtype(PrimaryKey)) :
                      n \in RowCounts, a \in {"valid", "null"}}
        : WellFormed(d)}

(***************************************************************************)
(* What the checks read of a dataset.                                      *)
(***************************************************************************)
\* len(df)
Len_df(df) == df.nrows

\* col in df.columns
HasColumn(df, col) == col \in df.columns

\* The values of df['commit_sha'], as a sequence (named values first).
RECURSIVE Repeat(_, _)
Repeat(x, n) == IF n = 0 THEN <<>> ELSE <<x>> \o Repeat(x, n - 1)

ShaColumn(df) ==
    Repeat(ShaValue("null"), df.sha["null"])
        \o Repeat(ShaValue("valid"), df.sha["valid"])
        \o Repeat(ShaValue("short"), df.sha["short"])
        \o Repeat(ShaValue("upper"), df.sha["upper"])
        \o Repeat(ShaValue("newline"), df.sha["newline"])
        \o [i \in 1..(df.nrows - NamedRows(df)) |-> Filler(i)]

\* df[col].isna().sum()
IsNaSum(df, col) ==
    IF col = PrimaryKey THEN CountIn(ShaColumn(df), NullValue) ELSE df.nulls[col]

\* re.match(r'^[a-f0-9]{40}$', v): forty lower-case hex digits, then the end
\* of the string or one newline that ends the string.
MatchesShaPattern(v) ==
    /\ Len(v) \in {ShaLength, ShaLength + 1}
    /\ \A i \in 1..ShaLength : v[i] \in HexLower
    /\ Len(v) = ShaLength + 1 => v[ShaLength + 1] = "\n"

\* Series.str.match(pattern, na=False): a null value yields False.
StrMatch(v) == IF v = NullValue THEN FALSE ELSE MatchesShaPattern(v)

\* len(df[~df['commit_sha'].str.match(..., na=False)])
InvalidShaCount(df) ==
    LET col == ShaColumn(df)
    IN  Cardinality({i \in DOMAIN col : ~StrMatch(col[i])})

\* The .str accessor exists only on a column of strings.
HasStrAccessor(df, col) == df.dtype[col] = "object"

\* pd.api.types.is_datetime64_any_dtype / is_numeric_dtype
IsDatetimeDtype(df, col) == df.dtype[col] = "datetime64[ns]"
IsNumericDtype(df, col) == df.dtype[col] \in {"int64", "float64"}

\* A plausible slip: duplicated(keep=False), which marks the first occurrence
\* of a repeated value too.
DuplicatedSum_KeepFalse(df) ==
    LET col == ShaColumn(df)
    IN  Cardinality({i \in DOMAIN col : \E j \in DOMAIN col : j # i /\ col[j] = col[i]})

\* df[primary_key].duplicated().sum(): every occurrence of a value after its
\* first one (nulls are equal to each other).
DuplicatedSum(df) ==
    LET col == ShaColumn(df)
    IN  Cardinality({i \in DOMAIN col : \E j \in 1..(i - 1) : col[j] = col[i]})

\* The distinct values that occur more than once, in order of first
\* occurrence: df[df[pk].duplicated(keep=False)][pk].unique()
RECURSIVE DupValuesFrom(_, _)
DupValuesFrom(col, i) ==
    IF i > Len(col) THEN <<>>
    ELSE IF /\ \A j \in 1..(i - 1) : col[j] # col[i]
            /\ \E j \in (i + 1)..Len(col) : col[j] = col[i]
         THEN <<col[i]>> \o DupValuesFrom(col, i + 1)
         ELSE DupValuesFrom(col, i + 1)

Take(s, n) == IF Len(s) <= n THEN s ELSE SubSeq(s, 1, n)

(***************************************************************************)
(* Numbers.  A percentage is kept in hundredths, as round(x, 2) leaves it; *)
(* NaN is the value of 0 / 0 on numpy integers.                            *)
(***************************************************************************)
NaN == [nan |-> TRUE, x100 |-> 0]

\* round((num / den) * 100, 2), rounding half to even
RoundPct(num, den) ==
    IF den = 0 THEN NaN
    ELSE LET q == (num * 10000) \div den
             r == (num * 10000) % den
             up == (2 * r > den) \/ (2 * r = den /\ q % 2 = 1)
         IN  [nan |-> FALSE, x100 |-> IF up THEN q + 1 ELSE q]

\* A plausible slip: >= for >.
PctExceeds_AtLeast(num, den, pct) == den # 0 /\ num * 100 >= pct * den

\* (num / den) * 100 > pct; a comparison with NaN is false
PctExceeds(num, den, pct) == den # 0 /\ num * 100 > pct * den

(***************************************************************************)
(* Messages and log lines.  A formatted message is its fixed text with the *)
(* strings and the numbers formatted into it.                              *)
(***************************************************************************)
Msg(text, strs, nums) == [text |-> text, strs |-> strs, nums |-> nums]

LogLine(level, text) == [level |-> level, text |-> text, check |-> "", message |-> Msg("", <<>>, <<>>)]

\* A plausible slip: only the check's name is logged.
FailureLine_NameOnly(r) ==
    [level |-> "ERROR", text |-> "  - ", check |-> r.check, message |-> Msg("", <<>>, <<>>)]

\* logger.error(f"  - {failure['check']}: {failure['message']}")
FailureLine(r) == [level |-> "ERROR", text |-> "  - ", check |-> r.check, message |-> r.message]

\* What a check method does: appends result to one list and returns
\* (flag, result), or raises exc; lines are the log lines it writes.
Returns(flag, list, result, lines) ==
    [raised |-> FALSE, flag |-> flag, list |-> list, result |-> result, lines |-> lines]

Raises(exc, lines) == [raised |-> TRUE, exc |-> exc, lines |-> lines]

Exc(type, args) == [type |-> type, args |-> args]

(***************************************************************************)
(* validate_schema                                                         *)
(***************************************************************************)
\* A plausible slip: the list of the null check is walked instead.
MissingColumns_CriticalOnly(df) == SelectSeq(CriticalColumns, LAMBDA c : ~HasColumn(df, c))

\* [col for col in required_columns if col not in df.columns]
MissingColumns(df) == SelectSeq(RequiredColumns, LAMBDA c : ~HasColumn(df, c))

ShaTypeErrors(df) ==
    IF InvalidShaCount(df) > 0
    THEN << Msg("{} invalid SHA hashes", <<>>, <<InvalidShaCount(df)>>) >>
    ELSE <<>>

DateTypeErrors(df) ==
    LET err(c) == IF ~IsDatetimeDtype(df, c)
                  THEN << Msg("{} is not datetime type", <<c>>, <<>>) >>
                  ELSE <<>>
    IN  err(DateColumns[1]) \o err(DateColumns[2])

NumericTypeErrors(df) ==
    IF ~IsNumericDtype(df, "comment_count")
    THEN << Msg("comment_count is not numeric type", <<>>, <<>>) >>
    ELSE <<>>

TypeErrors(df) == ShaTypeErrors(df) \o DateTypeErrors(df) \o NumericTypeErrors(df)

ValidateSchema(df) ==
    LET start == << LogLine("INFO", "Running schema validation...") >>
        missing == MissingColumns(df)
    IN  IF missing # <<>>
        THEN Returns(FALSE, "failed",
                 [ check   |-> "schema_validation",
                   status  |-> "FAILED",
                   message |-> Msg("Missing required columns: {}", missing, <<>>),
                   details |-> [ expected_columns |-> RequiredColumns,
                                 actual_columns   |-> df.columns,
                                 missing          |-> missing ] ],
                 start \o << LogLine("ERROR", "Schema validation failed") >>)
        ELSE IF ~HasStrAccessor(df, "commit_sha")
        THEN Raises(Exc("AttributeError",
                        << "Can only use .str accessor with string values!" >>),
                    start)
        ELSE IF TypeErrors(df) # <<>>
        THEN Returns(FALSE, "failed",
                 [ check   |-> "schema_validation",
                   status  |-> "FAILED",
                   message |-> Msg("Data type validation errors: {}",
                                   [i \in DOMAIN TypeErrors(df) |-> TypeErrors(df)[i].text],
                                   IF InvalidShaCount(df) > 0
                                   THEN <<InvalidShaCount(df)>> ELSE <<>>),
                   details |-> [ type_errors |-> TypeErrors(df) ] ],
                 start \o << LogLine("ERROR", "Schema validation failed") >>)
        ELSE Returns(TRUE, "passed",
                 [ check   |-> "schema_validation",
                   status  |-> "PASSED",
                   message |-> Msg("All required columns present with correct types", <<>>, <<>>),
                   details |-> [ validated_columns |-> RequiredColumns ] ],
                 start \o << LogLine("INFO", "Schema validation passed") >>)

(***************************************************************************)
(* validate_nulls; thresholdPct is threshold * 100                         *)
(***************************************************************************)
PresentCritical(df) == {c \in CriticalSet : HasColumn(df, c)}

\* A plausible slip: an absent column is reported as entirely null.
NullReport_AbsentAsNull(df) ==
    [c \in CriticalSet |->
        [ null_count      |-> IF HasColumn(df, c) THEN IsNaSum(df, c) ELSE Len_df(df),
          null_percentage |-> IF HasColumn(df, c) THEN RoundPct(IsNaSum(df, c), Len_df(df))
                              ELSE RoundPct(Len_df(df), Len_df(df)),
          total_rows      |-> Len_df(df) ]]

NullReport(df) ==
    [c \in PresentCritical(df) |->
        [ null_count      |-> IsNaSum(df, c),
          null_percentage |-> RoundPct(IsNaSum(df, c), Len_df(df)),
          total_rows      |-> Len_df(df) ]]

HasCriticalNulls(df, thresholdPct) ==
    \E c \in PresentCritical(df) : PctExceeds(IsNaSum(df, c), Len_df(df), thresholdPct)

ValidateNulls(df, thresholdPct) ==
    LET start == << LogLine("INFO", "Running null value validation...") >>
    IN  IF HasCriticalNulls(df, thresholdPct)
        THEN Returns(FALSE, "failed",
                 [ check   |-> "null_validation",
                   status  |-> "FAILED",
                   message |-> Msg("Critical columns have >={}% null values", <<>>, <<thresholdPct>>),
                   details |-> NullReport(df) ],
                 start \o << LogLine("ERROR", "Null validation failed") >>)
        ELSE Returns(TRUE, "passed",
                 [ check   |-> "null_validation",
                   status  |-> "PASSED",
                   message |-> Msg("Null values within acceptable threshold", <<>>, <<>>),
                   details |-> NullReport(df) ],
                 start \o << LogLine("INFO", "Null validation passed") >>)

(***************************************************************************)
(* validate_duplicates, with the default primary key                       *)
(***************************************************************************)
DuplicatesStart == << LogLine("INFO", "Running duplicate detection...") >>

\* primary_key not in df.columns
DuplicateKeyMissing(df) ==
    Returns(FALSE, "failed",
        [ check   |-> "duplicate_detection",
          status  |-> "FAILED",
          message |-> Msg("Primary key column '{}' not found", <<PrimaryKey>>, <<>>),
          details |-> <<>> ],
        DuplicatesStart \o << LogLine("ERROR", "Primary key column not found") >>)

\* A plausible slip: the duplicates found are recorded as a failure.
DuplicatesFound_AsFailure(df) ==
    Returns(TRUE, "failed",
        [ check   |-> "duplicate_detection",
          status  |-> "WARNING",
          message |-> Msg("Found {} duplicate records ({:.2f}%)", <<>>,
                          << DuplicatedSum(df),
                             RoundPct(DuplicatedSum(df), Len_df(df)).x100 >>),
          details |-> [ duplicate_count      |-> DuplicatedSum(df),
                        duplicate_percentage |-> RoundPct(DuplicatedSum(df), Len_df(df)),
                        total_rows           |-> Len_df(df),
                        sample_duplicates    |->
                            Take(DupValuesFrom(ShaColumn(df), 1), 5) ] ],
        DuplicatesStart \o << LogLine("WARNING", "Duplicate detection: duplicates found") >>)

\* duplicate_count > 0
DuplicatesFound(df) ==
    Returns(TRUE, "warnings",
        [ check   |-> "duplicate_detection",
          status  |-> "WARNING",
          message |-> Msg("Found {} duplicate records ({:.2f}%)", <<>>,
                          << DuplicatedSum(df),
                             RoundPct(DuplicatedSum(df), Len_df(df)).x100 >>),
          details |-> [ duplicate_count      |-> DuplicatedSum(df),
                        duplicate_percentage |-> RoundPct(DuplicatedSum(df), Len_df(df)),
                        total_rows           |-> Len_df(df),
                        sample_duplicates    |->
                            Take(DupValuesFrom(ShaColumn(df), 1), 5) ] ],
        DuplicatesStart \o << LogLine("WARNING", "Duplicate detection: duplicates found") >>)

NoDuplicates(df) ==
    Returns(TRUE, "passed",
        [ check   |-> "duplicate_detection",
          status  |-> "PASSED",
          message |-> Msg("No duplicate records found", <<>>, <<>>),
          details |-> [ duplicate_count |-> 0,
                        total_rows      |-> Len_df(df) ] ],
        DuplicatesStart \o << LogLine("INFO", "Duplicate detection passed") >>)

\* A plausible slip: an absent key column is taken to hold no duplicates.
ValidateDuplicates_AbsentKeyPasses(df) ==
    IF HasColumn(df, PrimaryKey) /\ DuplicatedSum(df) > 0
    THEN DuplicatesFound(df)
    ELSE NoDuplicates(df)

ValidateDuplicates(df) ==
    IF ~HasColumn(df, PrimaryKey) THEN DuplicateKeyMissing(df)
    ELSE IF DuplicatedSum(df) > 0 THEN DuplicatesFound(df)
    ELSE NoDuplicates(df)

(***************************************************************************)
(* validate_row_count                                                      *)
(***************************************************************************)
\* A plausible slip: <= for <.
BelowMinimum_OrEqual(row_count, min_rows) == row_count <= min_rows

\* row_count < min_rows
BelowMinimum(row_count, min_rows) == row_count < min_rows

ValidateRowCount(df, min_rows) ==
    LET start == << LogLine("INFO", "Running row count validation...") >>
        row_count == Len_df(df)
    IN  IF BelowMinimum(row_count, min_rows)
        THEN Returns(FALSE, "failed",
                 [ check   |-> "row_count_validation",
                   status  |-> "FAILED",
                   message |-> Msg("Insufficient rows: {} < {} (minimum)", <<>>,
                                   <<row_count, min_rows>>),
                   details |-> [ actual_rows      |-> row_count,
                                 minimum_required |-> min_rows ] ],
                 start \o << LogLine("ERROR", "Insufficient rows") >>)
        ELSE Returns(TRUE, "passed",
                 [ check   |-> "row_count_validation",
                   status  |-> "PASSED",
                   message |-> Msg("Row count meets minimum requirement: {} >= {}", <<>>,
                                   <<row_count, min_rows>>),
                   details |-> [ actual_rows      |-> row_count,
                                 minimum_required |-> min_rows ] ],
                 start \o << LogLine("INFO", "Row count validation passed") >>)

(***************************************************************************)
(* The engine: self.validation_results, as a record of its three lists.    *)
(***************************************************************************)
EmptyResults == [passed |-> <<>>, failed |-> <<>>, warnings |-> <<>>]

\* self.validation_results[o.list].append(o.result); nothing when o raised
Record(results, o) ==
    IF o.raised THEN results
    ELSE [results EXCEPT ![o.list] = Append(@, o.result)]

(***************************************************************************)
(* generate_report.  The report's 'results' entry is the engine's own      *)
(* dictionary, not a copy: the model keeps the summary and the timestamp,  *)
(* and the results of a report are the lists of the engine at the time     *)
(* they are read.                                                          *)
(***************************************************************************)
\* A plausible slip: the rate is cut to two decimals, not rounded.
SuccessRate_Truncated(np, total) ==
    [nan |-> FALSE, x100 |-> IF total > 0 THEN (np * 10000) \div total ELSE 0]

\* round((passed / total_checks * 100) if total_checks > 0 else 0, 2)
SuccessRate(np, total) ==
    IF total > 0 THEN RoundPct(np, total) ELSE [nan |-> FALSE, x100 |-> 0]

\* A plausible slip: the report takes a copy of the lists as they are.
GenerateReport_Snapshot(results, timestamp) ==
    LET total_checks == Len(results.passed) + Len(results.failed) + Len(results.warnings)
    IN  [ generated |-> TRUE,
          summary |-> [ total_checks |-> total_checks,
                        passed       |-> Len(results.passed),
                        failed       |-> Len(results.failed),
                        warnings     |-> Len(results.warnings),
                        success_rate |-> SuccessRate(Len(results.passed), total_checks) ],
          results |-> [reference |-> FALSE, copy |-> results],
          timestamp |-> timestamp ]

\* The summary is computed from the lists as they are; 'results' is
\* self.validation_results, a reference to the engine's own dictionary.
GenerateReport(results, timestamp) ==
    LET total_checks == Len(results.passed) + Len(results.failed) + Len(results.warnings)
    IN  [ generated |-> TRUE,
          summary |-> [ total_checks |-> total_checks,
                        passed       |-> Len(results.passed),
                        failed       |-> Len(results.failed),
                        warnings     |-> Len(results.warnings),
                        success_rate |-> SuccessRate(Len(results.passed), total_checks) ],
          results |-> [reference |-> TRUE],
          timestamp |-> timestamp ]

\* What a reader of report rep finds in it when the engine's lists are
\* results: report['results'] is the engine's dictionary itself, which the
\* reader follows to the lists as they are now.
ReadReport(rep, results) ==
    [ generated |-> TRUE,
      summary   |-> rep.summary,
      results   |-> IF rep.results.reference THEN results ELSE rep.results.copy,
      timestamp |-> rep.timestamp ]

NoReport == [generated |-> FALSE]

(***************************************************************************)
(* run                                                                     *)
(***************************************************************************)
\* The check calls of run, in call order, with their default arguments.
RunCalls(df) ==
    << ValidateSchema(df),
       ValidateNulls(df, DefaultThresholdPct),
       ValidateDuplicates(df),
       ValidateRowCount(df, DefaultMinRows) >>

\* The calls that execute: a call that raises ends the try block.
Executed(calls) ==
    LET raising == {i \in DOMAIN calls : calls[i].raised}
    IN  IF raising = {} THEN calls
        ELSE SubSeq(calls, 1, CHOOSE i \in raising : \A j \in raising : i <= j)

\* The results the outcomes append to list l, in call order.
AppendedTo(l, outcomes) ==
    LET into(i) == ~outcomes[i].raised /\ outcomes[i].list = l
        at == SelectSeq([i \in DOMAIN outcomes |-> i], into)
    IN  [j \in DOMAIN at |-> outcomes[at[j]].result]

\* A plausible slip: run starts from empty lists.
RecordAll_Reset(results, outcomes) ==
    [l \in DOMAIN results |-> AppendedTo(l, outcomes)]

\* self.validation_results after the calls: each list extended, never reset
RecordAll(results, outcomes) ==
    [l \in DOMAIN results |-> results[l] \o AppendedTo(l, outcomes)]

RECURSIVE LinesFrom(_, _)
LinesFrom(outcomes, i) ==
    IF i > Len(outcomes) THEN <<>>
    ELSE outcomes[i].lines \o LinesFrom(outcomes, i + 1)

LinesOf(outcomes) == LinesFrom(outcomes, 1)

SummaryLine(rep) ==
    [ level |-> "INFO", text |-> "Data Quality Validation Summary", check |-> "",
      message |-> Msg("Total Checks/Passed/Failed/Warnings/Success Rate", <<>>,
                      << rep.summary.total_checks, rep.summary.passed,
                         rep.summary.failed, rep.summary.warnings,
                         rep.summary.success_rate.x100 >>) ]

\* except Exception as e: logger.error(...); raise
Reraised == << LogLine("ERROR", "Data quality validation error") >>

ValidationFailed == Exc("ValueError", << "Data quality validation failed - pipeline stopped" >>)

LoadFailed == Exc("OperationalError", << "could not read raw.commits" >>)

RunBegin ==
    << LogLine("INFO", "Starting Data Quality Validation"),
       LogLine("INFO", "Loading data from raw.commits") >>

\* A plausible slip: the load failure is swallowed and run reports False.
RunLoadFailed_Swallowed ==
    [ lines |-> RunBegin \o << LogLine("ERROR", "Failed to load data") >> \o Reraised,
      kind  |-> "return", flag |-> FALSE ]

\* load_data raised: no check runs.
RunLoadFailed ==
    [ lines |-> RunBegin \o << LogLine("ERROR", "Failed to load data") >> \o Reraised,
      kind  |-> "raise", exc |-> LoadFailed ]

\* A check raised: the try block ends there.
RunCheckRaised(done) ==
    [ lines |-> RunBegin \o << LogLine("INFO", "Loaded rows") >> \o LinesOf(done) \o Reraised,
      kind  |-> "raise", exc |-> done[Len(done)].exc ]

\* All four checks returned and the report rep was generated; after are the
\* engine's results at that point.
RunDecide(done, after, rep, fail_on_error) ==
    LET has_failures == Len(after.failed) > 0
        summed == RunBegin \o << LogLine("INFO", "Loaded rows") >> \o LinesOf(done)
                      \o << SummaryLine(rep) >>
    IN  IF has_failures /\ fail_on_error
        THEN [ lines |-> summed
                         \o << LogLine("ERROR", "Data quality validation FAILED"),
                               LogLine("ERROR", "Failed checks:") >>
                         \o [i \in DOMAIN after.failed |-> FailureLine(after.failed[i])]
                         \o Reraised,
               kind  |-> "raise", exc |-> ValidationFailed ]
        ELSE IF has_failures
        THEN [ lines |-> summed \o << LogLine("WARNING",
                                        "Data quality validation completed with failures") >>,
               kind  |-> "return", flag |-> FALSE ]
        ELSE [ lines |-> summed \o << LogLine("INFO", "Data Quality Validation Passed") >>,
               kind  |-> "return", flag |-> TRUE ]

(***************************************************************************)
(* The state machine.                                                      *)
(*   table     the relational table raw.commits, as load_data reads it     *)
(*   passed, failed, warnings   the three lists of validation_results      *)
(*   log       the lines logged so far                                     *)
(*   ret       how the last operation ended, as its caller sees it         *)
(*   report    the last report generated                                   *)
(*   ops       the number of operations invoked on the engine              *)
(*   now       the clock, in ticks                                         *)
(*   earlier   the report of the engine instance used before this one, as  *)
(*             its holder reads it                                         *)
(*   bucket    the objects of the bucket raw-data                          *)
(*   stored    how the last store_raw_data ended                           *)
(*   latest    how the last get_latest_raw_data ended                      *)
(***************************************************************************)
Results == [passed |-> passed, failed |-> failed, warnings |-> warnings]

NoRet == [op |-> "none", kind |-> "none"]

NoOutcome == [kind |-> "none"]

ThresholdPcts == {0, DefaultThresholdPct, 2 * DefaultThresholdPct}
MinRowsChoices == {1, DefaultMinRows}

InitEngine ==
    /\ passed = EmptyResults.passed
    /\ failed = EmptyResults.failed
    /\ warnings = EmptyResults.warnings
    /\ log = <<>>
    /\ ret = NoRet
    /\ report = NoReport
    /\ ops = 0
    /\ now = 0
    /\ earlier = NoReport

\* The object store before either stage has run, the bucket being empty.
InitStore ==
    /\ bucket = {}
    /\ stored = NoOutcome
    /\ latest = NoOutcome
    /\ fetched = NoOutcome
    /\ load = NoOutcome

Init == table \in RunTables /\ InitEngine /\ InitStore

InitChecks == table \in Datasets /\ InitEngine /\ InitStore

\* A plausible slip: the check cleans the dataset it was given in place
\* (drop_duplicates(inplace=True)).
Invoke_DropsDuplicates(op, args, o) ==
    /\ passed' = Record(Results, o).passed
    /\ failed' = Record(Results, o).failed
    /\ warnings' = Record(Results, o).warnings
    /\ log' = log \o o.lines
    /\ ret' = IF o.raised
              THEN [op |-> op, args |-> args, kind |-> "raise", exc |-> o.exc]
              ELSE [op |-> op, args |-> args, kind |-> "return",
                    flag |-> o.flag, result |-> o.result]
    /\ ops' = ops + 1
    /\ table' = [table EXCEPT !.nrows = @ - DuplicatedSum(table),
                              !.sha = [v \in ShaNames |-> IF @[v] > 0 THEN 1 ELSE 0]]
    /\ UNCHANGED report
    /\ UNCHANGED outside

\* A caller invokes one check method on the loaded table; o is what the
\* method does.
Invoke(op, args, o) ==
    /\ passed' = Record(Results, o).passed
    /\ failed' = Record(Results, o).failed
    /\ warnings' = Record(Results, o).warnings
    /\ log' = log \o o.lines
    /\ ret' = IF o.raised
              THEN [op |-> op, args |-> args, kind |-> "raise", exc |-> o.exc]
              ELSE [op |-> op, args |-> args, kind |-> "return",
                    flag |-> o.flag, result |-> o.result]
    /\ ops' = ops + 1
    /\ UNCHANGED <<table, report>>
    /\ UNCHANGED outside

CallValidateSchema ==
    \E o \in {ValidateSchema(table)} : Invoke("validate_schema", <<>>, o)

CallValidateNulls ==
    \E th \in ThresholdPcts :
        \E o \in {ValidateNulls(table, th)} : Invoke("validate_nulls", <<th>>, o)

CallValidateDuplicates ==
    \E o \in {ValidateDuplicates(table)} : Invoke("validate_duplicates", <<>>, o)

CallValidateRowCount ==
    \E m \in MinRowsChoices :
        \E o \in {ValidateRowCount(table, m)} : Invoke("validate_row_count", <<m>>, o)

CallGenerateReport ==
    /\ report' = GenerateReport(Results, now)
    /\ ret' = [op |-> "generate_report", kind |-> "return"]
    /\ ops' = ops + 1
    /\ UNCHANGED <<table, passed, failed, warnings, log>>
    /\ UNCHANGED outside

\* How run ends: the engine's results and report afterwards, and its ending
\* end (the lines it logged, and the value returned or the exception raised).
RunEnds(after, rep, end, loaded, fail_on_error) ==
    /\ passed' = after.passed
    /\ failed' = after.failed
    /\ warnings' = after.warnings
    /\ report' = rep
    /\ log' = log \o end.lines
    /\ ret' = [op |-> "run", loaded |-> loaded, fail_on_error |-> fail_on_error] @@ end
    /\ ops' = ops + 1
    /\ UNCHANGED table
    /\ UNCHANGED outside

Run ==
    \E fail_on_error \in BOOLEAN, load_ok \in BOOLEAN :
        IF ~load_ok
        THEN RunEnds(Results, report, RunLoadFailed, FALSE, fail_on_error)
        ELSE \E done \in {Executed(RunCalls(table))} :
             \E after \in {RecordAll(Results, done)} :
                IF done[Len(done)].raised
                THEN RunEnds(after, report, RunCheckRaised(done), TRUE, fail_on_error)
                ELSE \E rep \in {GenerateReport(after, now)} :
                     \E end \in {RunDecide(done, after, rep, fail_on_error)} :
                        RunEnds(after, rep, end, TRUE, fail_on_error)

\* The operations a caller may invoke on an engine, in any order.
Bounded == ops < MaxOps

EngineValidateSchema == Bounded /\ CallValidateSchema
EngineValidateNulls == Bounded /\ CallValidateNulls
EngineValidateDuplicates == Bounded /\ CallValidateDuplicates
EngineValidateRowCount == Bounded /\ CallValidateRowCount
EngineGenerateReport == Bounded /\ CallGenerateReport
EngineRun == Bounded /\ Run

Next ==
    \/ EngineValidateSchema
    \/ EngineValidateNulls
    \/ EngineValidateDuplicates
    \/ EngineValidateRowCount
    \/ EngineGenerateReport
    \/ EngineRun

Spec == Init /\ [][Next]_vars

\* The single checks, each applied to a freshly constructed engine.
Fresh == ops = 0

FreshValidateSchema == Fresh /\ CallValidateSchema
FreshValidateNulls == Fresh /\ CallValidateNulls
FreshValidateDuplicates == Fresh /\ CallValidateDuplicates
FreshValidateRowCount == Fresh /\ CallValidateRowCount

NextChecks ==
    \/ FreshValidateSchema
    \/ FreshValidateNulls
    \/ FreshValidateDuplicates
    \/ FreshValidateRowCount

SpecChecks == InitChecks /\ [][NextChecks]_vars

\* A caller that invokes check methods and generate_report on one engine, up
\* to MaxCalls times, over a table that passes every check or one that draws
\* a warning and a failure.
ReportTables ==
    { Build(DefaultMinRows, <<>>),
      Repeating(DefaultMinRows - 1, "valid", "valid", ExpectedDtype(PrimaryKey)) }

InitReport == table \in ReportTables /\ InitEngine /\ InitStore

MoreCalls == ops < MaxCalls

ReportValidateSchema == MoreCalls /\ CallValidateSchema
ReportValidateNulls == MoreCalls /\ CallValidateNulls
ReportValidateDuplicates == MoreCalls /\ CallValidateDuplicates
ReportValidateRowCount == MoreCalls /\ CallValidateRowCount
ReportGenerateReport == MoreCalls /\ CallGenerateReport

NextReport ==
    \/ ReportValidateSchema
    \/ ReportValidateNulls
    \/ ReportValidateDuplicates
    \/ ReportValidateRowCount
    \/ ReportGenerateReport

SpecReport == InitReport /\ [][NextReport]_vars

\* One engine instance that run is called on up to MaxRuns times, the table
\* being replaced between runs by the transformation stage (TRUNCATE, then
\* append).  The tables: one that passes every check, one that fails the row
\* count, one that fails the schema, one that draws a warning, and one whose
\* commit_sha column is not of strings.
RerunTables ==
    { Build(DefaultMinRows, <<>>),
      Build(DefaultMinRows - 1, <<>>),
      Build(MaxRows, << <<"missing", "comment_count">> >>),
      Repeating(DefaultMinRows, "valid", "valid", ExpectedDtype(PrimaryKey)),
      Build(DefaultMinRows, << <<"dtype", PrimaryKey>> >>) }

InitRuns == table \in RerunTables /\ InitEngine /\ InitStore

MoreRuns == ops < MaxRuns

RerunRun == MoreRuns /\ Run

\* raw.commits comes to hold another dataset between two runs (dropped, and
\* created anew by load_to_postgres)
Reload ==
    /\ MoreRuns
    /\ table' \in RerunTables \ {table}
    /\ UNCHANGED <<passed, failed, warnings, log, ret, report, ops>>
    /\ UNCHANGED outside

NextRuns ==
    \/ RerunRun
    \/ Reload

SpecRuns == InitRuns /\ [][NextRuns]_vars

\* Time passes.
Tick ==
    /\ now < MaxClock
    /\ now' = now + 1
    /\ UNCHANGED <<table, passed, failed, warnings, log, ret, report, ops,
                   earlier, bucket, stored, latest, fetched, load>>

\* A plausible slip: the lists belong to the class, so that a new instance
\* finds those of the instance before it.
Construct_SharedLists ==
    /\ ops > 0
    /\ earlier = NoReport
    /\ earlier' = IF report.generated THEN ReadReport(report, Results)
                  ELSE [generated |-> FALSE, ended |-> ret.kind]
    /\ ret' = NoRet
    /\ report' = NoReport
    /\ ops' = 0
    /\ UNCHANGED <<table, passed, failed, warnings, log, now, bucket, stored, latest,
                   fetched, load>>

\* DataQualityValidator(): a second engine instance is constructed, with
\* lists of its own; the first one is not used again, and its report (or,
\* without one, how its last operation ended) stays with whoever holds it.
Construct ==
    /\ ops > 0
    /\ earlier = NoReport
    /\ earlier' = IF report.generated THEN ReadReport(report, Results)
                  ELSE [generated |-> FALSE, ended |-> ret.kind]
    /\ passed' = EmptyResults.passed
    /\ failed' = EmptyResults.failed
    /\ warnings' = EmptyResults.warnings
    /\ ret' = NoRet
    /\ report' = NoReport
    /\ ops' = 0
    /\ UNCHANGED <<table, log, now, bucket, stored, latest, fetched, load>>

\* The four checks and generate_report, as run makes them, on a fresh engine.
FreshRun == Fresh /\ Run

NextTwice ==
    \/ FreshRun
    \/ Construct
    \/ Tick

SpecTwice == Init /\ [][NextTwice]_vars

(***************************************************************************)
(* The object store and the two stages that use it.  An object name is a   *)
(* string, kept as the sequence of its characters; an object of the bucket *)
(* has its name, its body and the time the store stamped on it.            *)
(***************************************************************************)
\* "github-commits-multi/"
IngestionPrefix ==
    << "g", "i", "t", "h", "u", "b", "-", "c", "o", "m", "m", "i", "t", "s",
       "-", "m", "u", "l", "t", "i", "/" >>

\* "github-commits/"
ListingPrefix ==
    << "g", "i", "t", "h", "u", "b", "-", "c", "o", "m", "m", "i", "t", "s", "/" >>

\* The clock: TicksPerSecond ticks to the second, tick 0 being the second
\* EpochSecond of 2024-01-01 (one second before midnight).
TicksPerSecond == 2
EpochSecond == 86399

SecondAt(t) == EpochSecond + (t \div TicksPerSecond)

\* Two decimal digits, zero-padded (%d, %H, %M, %S)
Digits2(n) == << HexDigits[((n \div 10) % 10) + 1], HexDigits[(n % 10) + 1] >>

\* timestamp.strftime('%Y-%m-%d')
DatePath(t) ==
    << "2", "0", "2", "4", "-", "0", "1", "-" >> \o Digits2(1 + (SecondAt(t) \div 86400))

\* timestamp.strftime('%H-%M-%S.json')
TimeFilename(t) ==
    Digits2((SecondAt(t) \div 3600) % 24) \o << "-" >>
        \o Digits2((SecondAt(t) \div 60) % 60) \o << "-" >>
        \o Digits2(SecondAt(t) % 60) \o << ".", "j", "s", "o", "n" >>

\* f"github-commits-multi/{date_path}/{time_filename}"
ObjectName(t) == IngestionPrefix \o DatePath(t) \o << "/" >> \o TimeFilename(t)

\* The commit lists fetch_data returns (never an empty one), as the ids of
\* their commits.
Payloads == { << "c1" >>, << "c1", "c2" >>, << "c3" >> }

\* json.dumps(data, indent=2).encode('utf-8') and json.loads(response.read())
JsonDumps(data) == [json |-> data, size |-> Len(data)]
JsonLoads(body) == body.json

\* put_object: an object of the same name is replaced
PutObject(b, name, body, t) ==
    {o \in b : o.object_name # name}
        \cup {[object_name |-> name, body |-> body, last_modified |-> t]}

\* list_objects(bucket, prefix=prefix, recursive=True)
ListObjects(b, prefix) == {o \in b : IsPrefixOf(prefix, o.object_name)}

\* sorted(objects, key=lambda x: x.last_modified, reverse=True)[0]; no two
\* objects of the model that one listing returns bear the same stamp
LatestObject(objects) ==
    CHOOSE o \in objects : \A q \in objects : q.last_modified <= o.last_modified

\* An object stored under the listing prefix before the ingestion took the
\* prefix it has now: github-commits/2023-12-31/12-00-00.json
LegacyObject ==
    [ object_name   |-> ListingPrefix \o << "2", "0", "2", "3", "-", "1", "2", "-", "3", "1", "/",
                                            "1", "2", "-", "0", "0", "-", "0", "0",
                                            ".", "j", "s", "o", "n" >>,
      body          |-> JsonDumps(<< "c0" >>),
      last_modified |-> 0 ]

InitPipeline ==
    /\ table = Build(DefaultMinRows, <<>>)
    /\ InitEngine
    /\ bucket \in {{}, {LegacyObject}}
    /\ stored = NoOutcome
    /\ latest = NoOutcome
    /\ fetched = NoOutcome
    /\ load = NoOutcome

engine == <<table, passed, failed, warnings, log, ret, report, ops, earlier>>

\* DataIngestion.store_raw_data(data), data being what fetch_data returned;
\* the upload is stamped by the store and may fail with S3Error.  puts is the
\* number of put_object calls the method made.
StoreRawData ==
    \E data \in Payloads, uploaded \in BOOLEAN :
        /\ bucket' = IF uploaded
                     THEN PutObject(bucket, ObjectName(now), JsonDumps(data), now)
                     ELSE bucket
        /\ stored' = IF uploaded
                     THEN [kind |-> "return", object_name |-> ObjectName(now),
                           data |-> data, at |-> now, puts |-> 1]
                     ELSE [kind |-> "raise", exc |-> Exc("S3Error", <<>>), at |-> now,
                           puts |-> 1]
        /\ UNCHANGED <<now, latest, fetched, load>>
        /\ UNCHANGED engine

\* DataTransformation.get_latest_raw_data()
GetLatestRawData ==
    /\ \E objects \in {ListObjects(bucket, ListingPrefix)} :
          latest' = IF objects = {}
                    THEN [kind |-> "raise",
                          exc |-> Exc("ValueError", << "No data found in MinIO bucket" >>),
                          at |-> now]
                    ELSE [kind |-> "return",
                          object_name |-> LatestObject(objects).object_name,
                          data |-> JsonLoads(LatestObject(objects).body),
                          at |-> now]
    /\ UNCHANGED <<now, bucket, stored, fetched, load>>
    /\ UNCHANGED engine

NextPipeline ==
    \/ StoreRawData
    \/ GetLatestRawData
    \/ Tick

SpecPipeline == InitPipeline /\ [][NextPipeline]_vars

(***************************************************************************)
(* fetch_data and the ingestion run.  A commit of the API is a record with *)
(* its sha; a response is what one GET ends in: the JSON list of commits,  *)
(* a requests.exceptions.RequestException (connection error, timeout,      *)
(* raise_for_status), or an exception of another class.                    *)
(***************************************************************************)
\* self.repositories
Repositories ==
    << "vercel/next.js", "facebook/react", "microsoft/vscode", "kubernetes/kubernetes" >>

ApiResponses ==
    { [kind |-> "RequestException"],
      [kind |-> "Exception"],
      [kind |-> "ok", json |-> <<>>],
      [kind |-> "ok", json |-> << [sha |-> "c1"] >>],
      [kind |-> "ok", json |-> << [sha |-> "c1"], [sha |-> "c2"] >>] }

\* commit['source_repository'] = repo
\* commit['ingestion_timestamp'] = datetime.now().isoformat()
Annotate(commits, repo, t) ==
    [i \in DOMAIN commits |->
        [sha |-> commits[i].sha, source_repository |-> repo, ingestion_timestamp |-> t]]

\* all_commits after the loop has gone through repositories i..: the commits
\* of each response in repository order, a repository whose request failed
\* with RequestException being skipped
RECURSIVE AllCommits(_, _, _)
AllCommits(responses, i, t) ==
    IF i > Len(Repositories) THEN <<>>
    ELSE (IF responses[i].kind = "ok"
          THEN Annotate(responses[i].json, Repositories[i], t)
          ELSE <<>>) \o AllCommits(responses, i + 1, t)

\* A plausible slip: the final test for an empty list is left out.
FetchData_ReturnsEmpty(responses, t) ==
    LET broke == {i \in DOMAIN Repositories : responses[i].kind = "Exception"}
    IN  IF broke # {}
        THEN [kind |-> "raise", exc |-> Exc("Exception", << "API Error" >>),
              gets |-> CHOOSE i \in broke : \A j \in broke : i <= j,
              responses |-> responses, at |-> t]
        ELSE [kind |-> "return", data |-> AllCommits(responses, 1, t),
              gets |-> Len(Repositories), responses |-> responses, at |-> t]

\* DataIngestion.fetch_data(), responses[i] being what the GET for
\* repository i ends in; gets is the number of requests.get calls made.  An
\* exception that is no RequestException leaves the loop and the method.
FetchData(responses, t) ==
    LET broke == {i \in DOMAIN Repositories : responses[i].kind = "Exception"}
    IN  IF broke # {}
        THEN [kind |-> "raise", exc |-> Exc("Exception", << "API Error" >>),
              gets |-> CHOOSE i \in broke : \A j \in broke : i <= j,
              responses |-> responses, at |-> t]
        ELSE IF Len(AllCommits(responses, 1, t)) = 0
        THEN [kind |-> "raise",
              exc |-> Exc("Exception", << "No commits fetched from any repository" >>),
              gets |-> Len(Repositories), responses |-> responses, at |-> t]
        ELSE [kind |-> "return", data |-> AllCommits(responses, 1, t),
              gets |-> Len(Repositories), responses |-> responses, at |-> t]

\* A new DataIngestion over an empty bucket.
InitIngestion ==
    /\ table = Build(DefaultMinRows, <<>>)
    /\ InitEngine
    /\ InitStore

\* fetch_data() called on its own
CallFetchData ==
    /\ fetched = NoOutcome
    /\ \E responses \in [DOMAIN Repositories -> ApiResponses] :
          fetched' = FetchData(responses, now)
    /\ UNCHANGED <<now, bucket, stored, latest, load>>
    /\ UNCHANGED engine

\* DataIngestion.run(): fetch_data(), then store_raw_data(data) when it
\* returned; whatever either raises is logged and raised again.  The
\* statistics of store_raw_data divide by len(data).
IngestionRun ==
    /\ fetched = NoOutcome
    /\ \E responses \in [DOMAIN Repositories -> ApiResponses], uploaded \in BOOLEAN :
          \E o \in {FetchData(responses, now)} :
              /\ fetched' = o
              /\ bucket' = IF o.kind = "return" /\ Len(o.data) > 0 /\ uploaded
                           THEN PutObject(bucket, ObjectName(now), JsonDumps(o.data), now)
                           ELSE bucket
              /\ stored' = IF o.kind = "raise" THEN stored
                           ELSE IF Len(o.data) = 0
                           THEN [kind |-> "raise", exc |-> Exc("ZeroDivisionError", <<>>),
                                 at |-> now, puts |-> 0]
                           ELSE IF uploaded
                           THEN [kind |-> "return", object_name |-> ObjectName(now),
                                 data |-> o.data, at |-> now, puts |-> 1]
                           ELSE [kind |-> "raise", exc |-> Exc("S3Error", <<>>),
                                 at |-> now, puts |-> 1]
    /\ UNCHANGED <<now, latest, load>>
    /\ UNCHANGED engine

NextIngestion ==
    \/ CallFetchData
    \/ IngestionRun
    \/ Tick

SpecIngestion == InitIngestion /\ [][NextIngestion]_vars

(***************************************************************************)
(* load_to_postgres.  The table raw.commits either does not exist or is a  *)
(* dataset as above: its columns, with their types, and its rows.          *)
(***************************************************************************)
TableAbsent == [exists |-> FALSE]

\* SELECT EXISTS (... information_schema.tables ...)
TableExists(tbl) == tbl # TableAbsent

\* TRUNCATE TABLE raw.commits: the rows go, the columns and their types stay
Truncate(tbl) ==
    [ columns |-> tbl.columns,
      nrows   |-> 0,
      dtype   |-> tbl.dtype,
      nulls   |-> [c \in DOMAIN tbl.nulls |-> 0],
      sha     |-> [v \in ShaNames |-> 0] ]

\* df.to_sql(..., if_exists='append') into a table that exists and has every
\* column of df: the rows of df are inserted after those of the table, a
\* column of the table that df lacks being NULL in them.
AppendRows(tbl, df) ==
    [ columns |-> tbl.columns,
      nrows   |-> tbl.nrows + df.nrows,
      dtype   |-> tbl.dtype,
      nulls   |-> [c \in DOMAIN tbl.nulls |->
                      tbl.nulls[c] + (IF c \in df.columns THEN df.nulls[c] ELSE df.nrows)],
      sha     |-> [v \in ShaNames |->
                      tbl.sha[v] + (IF PrimaryKey \in df.columns THEN df.sha[v]
                                    ELSE IF PrimaryKey \in tbl.columns /\ v = "null"
                                    THEN df.nrows ELSE 0)] ]

\* df.to_sql(table_name, engine, schema='raw', if_exists='append', ...): a
\* table that does not exist is created from df; an INSERT that names a
\* column the table lacks fails.
ToSql(tbl, df) ==
    IF ~TableExists(tbl) THEN [kind |-> "return", table |-> df]
    ELSE IF df.columns \subseteq tbl.columns
    THEN [kind |-> "return", table |-> AppendRows(tbl, df)]
    ELSE [kind |-> "raise", exc |-> Exc("ProgrammingError", <<>>), table |-> tbl]

\* A plausible slip: the rows are appended to a table that was not emptied.
LoadToPostgres_NoTruncate(tbl, df) == ToSql(tbl, df)

\* DataTransformation.load_to_postgres(df): the table, when it exists, is
\* truncated and the truncation committed; then df is appended.  What to_sql
\* raises is logged and raised again.
LoadToPostgres(tbl, df) ==
    ToSql(IF TableExists(tbl) THEN Truncate(tbl) ELSE tbl, df)

\* The datasets load_to_postgres is given.  Those of transform_data have the
\* columns that the raw records had (available_cols), comment_count always
\* among them, each of the type the transformation gives it.
LoadFrames ==
    {d \in RunTables :
        /\ d.nrows \in {1, DefaultMinRows}
        /\ "comment_count" \in d.columns
        /\ \A c \in DOMAIN d.dtype : d.dtype[c] = ExpectedDtype(c)}

\* A database in which raw.commits does not exist yet.
InitLoad ==
    /\ table = TableAbsent
    /\ InitEngine
    /\ InitStore

LoadsMade == IF load = NoOutcome THEN 0 ELSE load.calls

\* load_to_postgres(df) is called, for the calls-th time
CallLoadToPostgres ==
    /\ LoadsMade < MaxLoads
    /\ \E df \in LoadFrames :
          \E o \in {LoadToPostgres(table, df)} :
              /\ table' = o.table
              /\ load' = IF o.kind = "return"
                         THEN [kind |-> "return", df |-> df, calls |-> LoadsMade + 1]
                         ELSE [kind |-> "raise", exc |-> o.exc, df |-> df,
                               calls |-> LoadsMade + 1]
    /\ UNCHANGED <<passed, failed, warnings, log, ret, report, ops,
                   now, earlier, bucket, stored, latest, fetched>>

NextLoad ==
    \/ CallLoadToPostgres
    \/ Tick

SpecLoad == InitLoad /\ [][NextLoad]_vars

(***************************************************************************)
(* Properties.  They read the table and what the caller observes (ret,     *)
(* the three lists, the report, the log), not the operators of the checks. *)
(***************************************************************************)
CheckOps == {"validate_schema", "validate_nulls", "validate_duplicates", "validate_row_count"}

CheckNames == << "schema_validation", "null_validation",
                 "duplicate_detection", "row_count_validation" >>

StartTexts == << "Running schema validation...", "Running null value validation...",
                 "Running duplicate detection...", "Running row count validation..." >>

\* The checks a sequence of log lines shows to have started, in order.
CheckStarts(lines) ==
    LET s == SelectSeq(lines, LAMBDA l : l.text \in Range(StartTexts))
    IN  [i \in DOMAIN s |-> s[i].text]

\* The "  - check: message" lines among log lines.
FailureLines(lines) == SelectSeq(lines, LAMBDA l : l.check # "")

SummaryLogged(lines) == \E i \in DOMAIN lines : lines[i].text = "Data Quality Validation Summary"

AllResults == passed \o failed \o warnings

NamesOf(results) == [i \in DOMAIN results |-> results[i].check]

\* A run on a fresh engine whose load_data succeeded has just ended.
FreshRunLoaded == ops = 1 /\ ret.op = "run" /\ ret.loaded

\* The nulls of column c of dataset d, read off the dataset.
NullsIn(d, c) == IF c = PrimaryKey THEN d.sha["null"] ELSE d.nulls[c]

\* C1: whenever the load succeeds, run starts the four checks exactly once
\* each, in the order schema, nulls, duplicates, row count, whatever the
\* dataset and the outcome of the earlier checks.
C1_RunExecutesAllChecks ==
    (ret.op = "run" /\ ret.loaded) => CheckStarts(ret.lines) = StartTexts

\* C2: with fail_on_error a run on a fresh engine raises iff some check
\* FAILED, returns true when none did, and raises only after the four checks
\* and the report.
C2_FailFastIffFailed ==
    (FreshRunLoaded /\ ret.fail_on_error) =>
        /\ (ret.kind = "raise") <=> (failed # <<>>)
        /\ (failed = <<>>) => (ret.kind = "return" /\ ret.flag)
        /\ (ret.kind = "raise") =>
              /\ CheckStarts(ret.lines) = StartTexts
              /\ SummaryLogged(ret.lines)
              /\ report.generated

\* C3 as stated: the error value raised in fail-fast mode carries the name
\* of each FAILED check of the run, and of no other check.
CarriedChecks(exc) == Range(exc.args) \cap Range(CheckNames)

C4_NoFailFastReturnsFlag ==
    (FreshRunLoaded /\ ~ret.fail_on_error) =>
        /\ ret.kind = "return"
        /\ ret.flag <=> (failed = <<>>)

\* C5: a check method invoked on a fresh engine leaves exactly one result in
\* the three lists together, and after one run on a fresh engine the lists
\* hold four results, one for each check name.
C5_OneResultPerCheck ==
    /\ (ops = 1 /\ ret.op \in CheckOps) => Len(AllResults) = 1
    /\ FreshRunLoaded =>
          /\ Len(AllResults) = Len(CheckNames)
          /\ Range(NamesOf(AllResults)) = Range(CheckNames)

\* C6: on a dataset that lacks a required column validate_schema returns
\* FAILED, its details.missing lists exactly the required columns that the
\* dataset lacks, each once, and it reports no type validation.
C6_MissingColumnsFail ==
    (ret.op = "validate_schema" /\ ~(RequiredSet \subseteq table.columns)) =>
        /\ ret.kind = "return"
        /\ ~ret.flag
        /\ ret.result.status = "FAILED"
        /\ Range(ret.result.details.missing) = RequiredSet \ table.columns
        /\ Len(ret.result.details.missing) = Cardinality(RequiredSet \ table.columns)
        /\ "type_errors" \notin DOMAIN ret.result.details
        /\ failed = << ret.result >>

C6_Witness ==
    /\ ret.op = "validate_schema"
    /\ Cardinality(RequiredSet \ table.columns) = 2
    /\ ret.result.status = "FAILED"

\* C7: validate_schema returns PASSED iff no required column is missing and
\* there is no type error (a commit_sha that does not match the pattern, a
\* null one included; a date column that is not datetime-typed; a
\* comment_count that is not numeric-typed), and FAILED in every other case.
NoTypeError(d) ==
    /\ d.sha["null"] = 0 /\ d.sha["short"] = 0 /\ d.sha["upper"] = 0
    /\ d.dtype["author_date"] = "datetime64[ns]"
    /\ d.dtype["committer_date"] = "datetime64[ns]"
    /\ d.dtype["comment_count"] \in {"int64", "float64"}

C7_SchemaPassedIff ==
    (ret.op = "validate_schema") =>
        /\ ret.kind = "return"
        /\ ret.result.status \in {"PASSED", "FAILED"}
        /\ (ret.result.status = "PASSED") <=>
              (RequiredSet \subseteq table.columns /\ NoTypeError(table))

\* C8: validate_nulls returns FAILED iff some present critical column has
\* null_count / N strictly above the threshold, PASSED otherwise, and the
\* detail of every present critical column reports its null count.
C8_NullsFailIffAboveThreshold ==
    (ret.op = "validate_nulls") =>
        LET th == ret.args[1]
            above == \E c \in CriticalSet \cap table.columns :
                        /\ table.nrows > 0
                        /\ NullsIn(table, c) * 100 > th * table.nrows
        IN  /\ ret.kind = "return"
            /\ (ret.result.status = "FAILED") <=> above
            /\ (ret.result.status = "PASSED") <=> ~above
            /\ ret.flag <=> ~above
            /\ \A c \in CriticalSet \cap table.columns :
                  ret.result.details[c].null_count = NullsIn(table, c)

\* a column whose null fraction equals the default threshold exactly
C8_Witness ==
    /\ ret.op = "validate_nulls"
    /\ ret.args[1] = DefaultThresholdPct
    /\ \E c \in CriticalSet \cap table.columns :
          NullsIn(table, c) > 0 /\ NullsIn(table, c) * 100 = DefaultThresholdPct * table.nrows
    /\ ret.result.status = "PASSED"

\* C9: validate_nulls gives the details one entry for each critical column
\* that is present and none for an absent one, fails only over nulls of a
\* present column, and passes with empty details when no critical column is
\* present.
C9_AbsentColumnsSkipped ==
    (ret.op = "validate_nulls") =>
        /\ ret.kind = "return"
        /\ DOMAIN ret.result.details = CriticalSet \cap table.columns
        /\ (ret.result.status = "FAILED") =>
              \E c \in CriticalSet \cap table.columns : NullsIn(table, c) > 0
        /\ (CriticalSet \cap table.columns = {}) =>
              (ret.result.status = "PASSED" /\ ret.result.details = <<>>)

C9_Witness ==
    /\ ret.op = "validate_nulls"
    /\ CriticalSet \cap table.columns = {}
    /\ table.nrows > 0
    /\ ret.result.status = "PASSED"

\* C10: validate_duplicates returns FAILED (flag false, result appended to
\* the failed list) whenever the primary-key column is absent, so one run
\* over a dataset without commit_sha records both schema_validation and
\* duplicate_detection as failed.
C10_AbsentKeyFails ==
    /\ (ret.op = "validate_duplicates" /\ PrimaryKey \notin table.columns) =>
          /\ ret.kind = "return"
          /\ ~ret.flag
          /\ ret.result.status = "FAILED"
          /\ ret.result.check = "duplicate_detection"
          /\ failed # <<>> /\ failed[Len(failed)] = ret.result
    /\ (FreshRunLoaded /\ PrimaryKey \notin table.columns) =>
          {"schema_validation", "duplicate_detection"} \subseteq Range(NamesOf(failed))

C10_Witness ==
    /\ FreshRunLoaded
    /\ PrimaryKey \notin table.columns
    /\ Len(failed) = 2

\* The number of distinct values of the commit_sha column of dataset d, the
\* null value counted as one value, read off the dataset.
DistinctKeys(d) ==
    Cardinality({v \in ShaNames : d.sha[v] > 0}) + (d.nrows - NamedRows(d))

\* C11: with the primary-key column present validate_duplicates reports
\* duplicate_count = rows - distinct key values and returns true; a positive
\* count gives WARNING, appended to the warnings list only, and a zero count
\* gives PASSED with duplicate_count = 0.
C11_DuplicatesCounted ==
    (ret.op = "validate_duplicates" /\ PrimaryKey \in table.columns) =>
        LET dups == table.nrows - DistinctKeys(table)
        IN  /\ ret.kind = "return"
            /\ ret.flag
            /\ ret.result.details.duplicate_count = dups
            /\ ret.result.details.total_rows = table.nrows
            /\ (dups > 0) =>
                  /\ ret.result.status = "WARNING"
                  /\ warnings = << ret.result >>
                  /\ passed = <<>> /\ failed = <<>>
            /\ (dups = 0) =>
                  /\ ret.result.status = "PASSED"
                  /\ passed = << ret.result >>
                  /\ warnings = <<>> /\ failed = <<>>

\* three rows share one commit_sha among otherwise unique rows
C11_Witness ==
    /\ ret.op = "validate_duplicates"
    /\ table.sha["valid"] = 3
    /\ NamedRows(table) = 3
    /\ table.nrows > 3
    /\ ret.result.status = "WARNING"
    /\ ret.result.details.duplicate_count = 2
    /\ ret.flag

\* C12: validate_row_count returns FAILED iff the row count is strictly below
\* min_rows and PASSED otherwise (row count = min_rows included), and in both
\* cases the details hold the row count and min_rows.
C12_RowCountFailsIffBelow ==
    (ret.op = "validate_row_count") =>
        LET min_rows == ret.args[1]
        IN  /\ ret.kind = "return"
            /\ (ret.result.status = "FAILED") <=> (table.nrows < min_rows)
            /\ (ret.result.status = "PASSED") <=> (table.nrows >= min_rows)
            /\ ret.flag <=> (table.nrows >= min_rows)
            /\ ret.result.details = [actual_rows |-> table.nrows,
                                     minimum_required |-> min_rows]
            /\ IF ret.flag THEN passed = << ret.result >> /\ failed = <<>>
                           ELSE failed = << ret.result >> /\ passed = <<>>

\* a dataset of exactly min_rows rows passes
C12_Witness ==
    /\ ret.op = "validate_row_count"
    /\ ret.args[1] = DefaultMinRows
    /\ table.nrows = DefaultMinRows
    /\ ret.result.status = "PASSED"

\* A report has just been produced: the lists are those it was computed from.
ReportJustMade ==
    /\ report.generated
    /\ \/ ret.op = "generate_report"
       \/ ret.op = "run" /\ SummaryLogged(ret.lines)

CountsMatchLists ==
    /\ report.summary.passed = Len(passed)
    /\ report.summary.failed = Len(failed)
    /\ report.summary.warnings = Len(warnings)
    /\ report.summary.total_checks = Len(passed) + Len(failed) + Len(warnings)

\* C13 as stated: in every report the three counts are the lengths of the
\* lists, total_checks is their sum, and success_rate is exactly
\* passed / total_checks * 100, or 0 when total_checks is 0.
C13_SummaryExact ==
    ReportJustMade =>
        /\ CountsMatchLists
        /\ ~report.summary.success_rate.nan
        /\ IF report.summary.total_checks = 0
           THEN report.summary.success_rate.x100 = 0
           ELSE report.summary.success_rate.x100 * report.summary.total_checks
                    = Len(passed) * 10000

\* C13 as amended: the counts and the total as stated, and success_rate is
\* passed / total_checks * 100 rounded to two decimals (the hundredth nearest
\* to it), or 0 when total_checks is 0; warnings do not count as passed.
C13_SummaryRounded ==
    ReportJustMade =>
        /\ CountsMatchLists
        /\ ~report.summary.success_rate.nan
        /\ IF report.summary.total_checks = 0
           THEN report.summary.success_rate.x100 = 0
           ELSE LET off == report.summary.success_rate.x100 * report.summary.total_checks
                               - Len(passed) * 10000
                IN  /\ 2 * off <= report.summary.total_checks
                    /\ 2 * off >= 0 - report.summary.total_checks

\* two of three checks passed and one drew a warning: 66.67
C13_Witness ==
    /\ ret.op = "generate_report"
    /\ Len(passed) = 2 /\ Len(warnings) = 1 /\ Len(failed) = 0
    /\ report.summary.success_rate.x100 = 6667

\* Dataset d fails schema validation: a required column is absent or
\* wrong-typed (commit_sha not a column of strings that match the pattern, a
\* date column not datetime-typed, comment_count not numeric-typed).
FailsSchema(d) ==
    \/ ~(RequiredSet \subseteq d.columns)
    \/ d.dtype[PrimaryKey] # "object"
    \/ ~NoTypeError(d)

\* Dataset d passes the null, duplicate and row count checks under their
\* default arguments.
PassesOtherChecks(d) ==
    /\ d.nrows >= DefaultMinRows
    /\ PrimaryKey \in d.columns
    /\ DistinctKeys(d) = d.nrows
    /\ \A c \in CriticalSet \cap d.columns :
          NullsIn(d, c) * 100 <= DefaultThresholdPct * d.nrows

\* C14: one run on a fresh engine over a dataset that fails schema validation
\* and passes the three other checks raises the terminal error under
\* fail_on_error, its failed checks (the failures reported with it) being
\* schema_validation alone, returns false without raising otherwise, and
\* leaves a report with failed = 1, passed = 3, warnings = 0 and
\* success_rate = 75.0.
C14_SchemaFailureEndToEnd ==
    (FreshRunLoaded /\ FailsSchema(table) /\ PassesOtherChecks(table)) =>
        /\ ret.fail_on_error =>
              /\ ret.kind = "raise"
              /\ ret.exc.type = "ValueError"
              /\ NamesOf(FailureLines(ret.lines)) = << "schema_validation" >>
        /\ ~ret.fail_on_error => (ret.kind = "return" /\ ~ret.flag)
        /\ NamesOf(failed) = << "schema_validation" >>
        /\ report.generated
        /\ report.summary.failed = 1
        /\ report.summary.passed = 3
        /\ report.summary.warnings = 0
        /\ report.summary.success_rate = [nan |-> FALSE, x100 |-> 7500]

\* C15: each of the four check methods returns a (flag, result) pair for
\* every dataset and never raises.
C15_ChecksNeverRaise ==
    (ret.op \in CheckOps) =>
        /\ ret.kind = "return"
        /\ ret.flag \in BOOLEAN
        /\ ret.result.status \in {"PASSED", "FAILED", "WARNING"}

\* C16: a run whose load_data fails raises that failure; no check starts,
\* the three lists are left as they were and no report is generated.
C16_LoadFailurePropagates ==
    [][ (ops' = ops + 1 /\ ret'.op = "run" /\ ~ret'.loaded) =>
            /\ ret'.kind = "raise"
            /\ ret'.exc.type # "ValueError"
            /\ CheckStarts(ret'.lines) = <<>>
            /\ ~SummaryLogged(ret'.lines)
            /\ passed' = passed /\ failed' = failed /\ warnings' = warnings
            /\ report' = report
            /\ ops = 0 => (passed' = <<>> /\ failed' = <<>> /\ warnings' = <<>>
                           /\ ~report'.generated) ]_vars

\* the load fails on an engine that already holds a result
C16_Witness ==
    /\ ret.op = "run" /\ ~ret.loaded /\ ret.kind = "raise"
    /\ ops = 2
    /\ Len(AllResults) = 1
    /\ ~report.generated

\* C19: no operation of the engine changes the dataset or the table: a check
\* method appends one result to one of the three lists and changes nothing
\* else of the engine, generate_report leaves the lists as they are, and run
\* only appends to the lists.
C19_DatasetNeverMutated ==
    [][ /\ table' = table
        /\ IsPrefixOf(passed, passed')
        /\ IsPrefixOf(failed, failed')
        /\ IsPrefixOf(warnings, warnings')
        /\ (ops' = ops + 1 /\ ret'.op \in CheckOps) =>
              /\ Len(passed') + Len(failed') + Len(warnings')
                    <= Len(passed) + Len(failed) + Len(warnings) + 1
              /\ report' = report
        /\ (ops' = ops + 1 /\ ret'.op = "generate_report") =>
              (passed' = passed /\ failed' = failed /\ warnings' = warnings) ]_vars

\* checks have run over a table that they could have cleaned
C19_Witness ==
    /\ ops = 2
    /\ ret.op = "validate_duplicates" /\ ret.result.status = "WARNING"
    /\ Len(AllResults) = 2
    /\ table.sha["valid"] = 3

\* The number of log lines with the given text.
CountLines(lines, text) == Cardinality({i \in DOMAIN lines : lines[i].text = text})

\* Every run made on the engine so far executed its four checks and
\* produced its report.
AllRunsCompleted ==
    /\ ops > 0
    /\ CountLines(log, "Starting Data Quality Validation") = ops
    /\ CountLines(log, "Data Quality Validation Summary") = ops

C18_FreshEnginesAgree ==
    (earlier.generated /\ report.generated) =>
        /\ earlier.summary = report.summary
        /\ earlier.results = ReadReport(report, Results).results
        /\ DOMAIN earlier = DOMAIN ReadReport(report, Results)
        /\ \A f \in DOMAIN earlier \ {"timestamp"} :
              earlier[f] = ReadReport(report, Results)[f]

\* two reports over a table that draws a warning and a failure, made at
\* different times
C18_Witness ==
    /\ earlier.generated /\ report.generated
    /\ earlier.timestamp # report.timestamp
    /\ Len(earlier.results.warnings) = 1
    /\ Len(earlier.results.failed) = 1
    /\ Len(earlier.results.passed) = 2

\* C20: once an ingestion run has stored its object, a run of
\* get_latest_raw_data returns the data of the object most recently stored
\* by the ingestion: it neither fails for want of data nor reads another
\* object.
C20_HandOff ==
    [][ (stored.kind = "return" /\ latest' # latest) =>
            /\ latest'.kind = "return"
            /\ latest'.object_name = stored.object_name
            /\ latest'.data = stored.data ]_vars

\* A store_raw_data call that has just returned.
StoreCompleted == stored' # stored /\ stored'.kind = "return"

\* C21: every store_raw_data call that completes writes a new object: its
\* key is the key of no object the bucket already held, so that nothing an
\* earlier run stored is overwritten and the bucket holds one object more
\* than before.
C21_NewObjectPerStore ==
    [][ StoreCompleted =>
            /\ \A o \in bucket : o.object_name # stored'.object_name
            /\ Cardinality(bucket') = Cardinality(bucket) + 1 ]_vars

\* sub in s, for strings
Contains(s, sub) ==
    \E i \in 1..(Len(s) - Len(sub) + 1) : SubSeq(s, i, i + Len(sub) - 1) = sub

\* s.endswith(suffix)
EndsWith(s, suffix) ==
    /\ Len(suffix) <= Len(s)
    /\ SubSeq(s, Len(s) - Len(suffix) + 1, Len(s)) = suffix

DecimalDigits == {HexDigits[i] : i \in 1..10}

\* re.search(r'\d{4}-\d{2}-\d{2}', s) finds a match
ContainsDate(s) ==
    \E i \in 1..(Len(s) - 9) :
        \A k \in 0..9 : IF k \in {4, 7} THEN s[i + k] = "-"
                                        ELSE s[i + k] \in DecimalDigits

\* C23: a store_raw_data call that returns has made exactly one put_object
\* upload, the key it returns is the key of an object of the bucket, and
\* that key contains "github-commits/", contains a date YYYY-MM-DD and ends
\* with ".json".
C23_StoredKeyContract ==
    stored.kind = "return" =>
        /\ stored.puts = 1
        /\ \E o \in bucket : o.object_name = stored.object_name
        /\ Contains(stored.object_name, ListingPrefix)
        /\ ContainsDate(stored.object_name)
        /\ EndsWith(stored.object_name, << ".", "j", "s", "o", "n" >>)

\* What the code keeps of it: everything but the path segment.
C23_StoredKeyShape ==
    stored.kind = "return" =>
        /\ stored.puts = 1
        /\ \E o \in bucket : o.object_name = stored.object_name
        /\ Contains(stored.object_name, IngestionPrefix)
        /\ ~Contains(stored.object_name, ListingPrefix)
        /\ ContainsDate(stored.object_name)
        /\ EndsWith(stored.object_name, << ".", "j", "s", "o", "n" >>)

\* Every entry of a list of results has the given status.
AllHaveStatus(list, status) == \A i \in DOMAIN list : list[i].status = status

\* C26: at all times the passed list holds only PASSED results, the failed
\* list only FAILED ones and the warnings list only WARNING ones, and when a
\* check method has returned, its boolean is false exactly when the result
\* it appended (the last entry of one of the lists) has status FAILED.
C26_ListsMatchStatuses ==
    /\ AllHaveStatus(passed, "PASSED")
    /\ AllHaveStatus(failed, "FAILED")
    /\ AllHaveStatus(warnings, "WARNING")
    /\ (ret.op \in CheckOps /\ ret.kind = "return") =>
          /\ ret.flag \in BOOLEAN
          /\ (ret.flag = FALSE) <=> (ret.result.status = "FAILED")
          /\ \E l \in {passed, failed, warnings} :
                Len(l) > 0 /\ l[Len(l)] = ret.result

\* a check has returned False on an engine whose three lists all hold results
C26_Witness ==
    /\ ret.op \in CheckOps
    /\ ret.kind = "return"
    /\ ret.flag = FALSE
    /\ failed[Len(failed)] = ret.result
    /\ Len(passed) > 0
    /\ Len(warnings) > 0

\* The number of results in the lists a reader of report rep finds in it.
ResultsRead(rep, results) ==
    Len(ReadReport(rep, results).results.passed)
        + Len(ReadReport(rep, results).results.failed)
        + Len(ReadReport(rep, results).results.warnings)

\* C27: generate_report leaves the three lists as they were; and when a check
\* returns on an engine that has produced a report, that report's results are
\* the engine's lists with the new result in them, while its summary and
\* timestamp stay as they were computed.
C27_ReportSharesLists ==
    [][ /\ (ops' # ops /\ ret'.op = "generate_report") =>
              /\ Results' = Results
              /\ ReadReport(report', Results').results = Results
              /\ ResultsRead(report', Results') = report'.summary.total_checks
        /\ (ops' # ops /\ report.generated /\ ret'.op \in CheckOps
                /\ ret'.kind = "return") =>
              /\ ReadReport(report', Results').results = Results'
              /\ ResultsRead(report', Results') = ResultsRead(report, Results) + 1
              /\ ReadReport(report', Results').summary = ReadReport(report, Results).summary
              /\ ReadReport(report', Results').timestamp
                    = ReadReport(report, Results).timestamp ]_vars

\* a check has returned after the report was produced: the report's summary
\* counts fewer results than its results hold
C27_Witness ==
    /\ report.generated
    /\ ret.op \in CheckOps
    /\ ret.kind = "return"
    /\ report.summary.total_checks > 0
    /\ report.summary.total_checks < ResultsRead(report, Results)

\* C22: when fetch_data returns, it has issued exactly one HTTP GET, and what
\* it returns is exactly the list of records that the API returned: the same
\* records, as many of them, none twice.
C22_OneGetSameRecords ==
    fetched.kind = "return" =>
        /\ fetched.gets = 1
        /\ \E i \in DOMAIN Repositories :
              /\ fetched.responses[i].kind = "ok"
              /\ fetched.data = fetched.responses[i].json

\* The shas of a list of commits, in order.
ShasOf(commits) == [i \in DOMAIN commits |-> commits[i].sha]

\* What the code does instead: one GET per configured repository, and the
\* commits of every response that came back, each with two fields added.
C22_OneGetPerRepository ==
    fetched.kind = "return" =>
        /\ fetched.gets = Len(Repositories)
        /\ \A i \in DOMAIN fetched.data :
              /\ DOMAIN fetched.data[i] = {"sha", "source_repository", "ingestion_timestamp"}
              /\ fetched.data[i].ingestion_timestamp = fetched.at
        /\ \A r \in DOMAIN Repositories :
              ShasOf(SelectSeq(fetched.data,
                               LAMBDA c : c.source_repository = Repositories[r]))
                  = IF fetched.responses[r].kind = "ok"
                    THEN ShasOf(fetched.responses[r].json) ELSE <<>>

\* No commit came back from repository i.
NothingFrom(responses, i) ==
    responses[i].kind # "ok" \/ responses[i].json = <<>>

\* C24: fetch_data never returns an empty list: when no commit came from any
\* repository (every request failed, or came back empty) it raises; and an
\* ingestion run that completed has stored what fetch_data returned, at
\* least one record.
C24_NeverEmpty ==
    /\ fetched.kind = "return" => Len(fetched.data) >= 1
    /\ (fetched.kind # "none"
            /\ \A i \in DOMAIN Repositories : NothingFrom(fetched.responses, i))
          => fetched.kind = "raise"
    /\ stored.kind = "return" =>
          /\ fetched.kind = "return"
          /\ stored.data = fetched.data
          /\ \E o \in bucket : /\ o.object_name = stored.object_name
                               /\ Len(JsonLoads(o.body)) >= 1

\* the request failed for every repository: fetch_data raised after four
\* requests and nothing was stored
C24_Witness ==
    /\ fetched.kind = "raise"
    /\ \A i \in DOMAIN Repositories : fetched.responses[i].kind = "RequestException"
    /\ fetched.gets = Len(Repositories)
    /\ fetched.exc = Exc("Exception", << "No commits fetched from any repository" >>)
    /\ stored = NoOutcome
    /\ bucket = {}

\* A load_to_postgres call that has just returned.
LoadCompleted == load' # load /\ load'.kind = "return"

\* C25: after load_to_postgres completes, raw.commits contains exactly the
\* dataset passed in, whatever the table held before; so a second load of
\* the same dataset leaves the table as the first one left it.
C25_ExactlyTheDataset ==
    [][ LoadCompleted =>
            /\ table' = load'.df
            /\ (load.kind = "return" /\ load.df = load'.df) => table' = table ]_vars

\* C25, as the code has it: the rows the table held are gone and it has as
\* many rows as the dataset, with the dataset's values in the dataset's
\* columns; the columns are those of the dataset when the table did not
\* exist and those the table had otherwise, a column the dataset lacks being
\* NULL in every row; and a second load of the same dataset leaves the table
\* as the first one left it.
C25_TruncateAndReload ==
    [][ LoadCompleted =>
            LET df == load'.df
            IN  /\ table'.nrows = df.nrows
                /\ table'.columns = IF TableExists(table) THEN table.columns ELSE df.columns
                /\ df.columns \subseteq table'.columns
                /\ \A c \in DOMAIN table'.nulls :
                      table'.nulls[c] = IF c \in df.columns THEN df.nulls[c] ELSE df.nrows
                /\ PrimaryKey \in df.columns => table'.sha = df.sha
                /\ PrimaryKey \in table'.columns \ df.columns =>
                      table'.sha = [v \in ShaNames |-> IF v = "null" THEN df.nrows ELSE 0]
                /\ table'.columns = df.columns => table' = df
                /\ (load.kind = "return" /\ load.df = df) => table' = table ]_vars

\* a second load has completed on a table that has a column the dataset
\* lacks: the table holds the dataset's rows and the column besides
C25_Witness ==
    /\ load.kind = "return"
    /\ load.calls >= 2
    /\ table.nrows = load.df.nrows
    /\ load.df.columns \subseteq table.columns
    /\ table.columns # load.df.columns

(***************************************************************************)
(* What remains of C1, C2, C4, C5, C7, C14 and C15 on the datasets whose    *)
(* commit_sha column, when present, is a column of strings: there          *)
(* validate_schema cannot raise, and each of the statements holds.         *)
(***************************************************************************)
StringSha == PrimaryKey \in table.columns => table.dtype[PrimaryKey] = "object"

StringSha_RunExecutesAllChecks == StringSha => C1_RunExecutesAllChecks
StringSha_FailFastIffFailed == StringSha => C2_FailFastIffFailed
StringSha_NoFailFastReturnsFlag == StringSha => C4_NoFailFastReturnsFlag
StringSha_OneResultPerCheck == StringSha => C5_OneResultPerCheck
StringSha_SchemaPassedIff == StringSha => C7_SchemaPassedIff
StringSha_SchemaFailureEndToEnd == StringSha => C14_SchemaFailureEndToEnd
StringSha_ChecksNeverRaise == StringSha => C15_ChecksNeverRaise

====
